---- MODULE Spec2Model ----
(***************************************************************************)
(* Course Search v1.4.2 (streamlit_app.py): the search-term chips kept in  *)
(* st.session_state["terms"], the term normalizer, and the WHERE clause    *)
(* the script builds and hands to session.sql on every rerun.              *)
(*                                                                         *)
(* A Python str is modelled as a sequence of one-character strings.        *)
(***************************************************************************)
EXTENDS Integers, Sequences, FiniteSets, TLC

VARIABLES
    terms,          \* st.session_state["terms"]: list of str
    err,            \* TRUE once a handler raised an exception
    last,           \* the widget event the current rerun handles, and the list before it
    text,           \* a str handed to the normalizer, and the same str as a stored column
    phrase,         \* normalize_term_to_phrase(text)
    rephrase,       \* normalize_term_to_phrase(phrase)
    norm_col,       \* the value of the NORM_TITLE expression on a row whose title is text
    npc,            \* which of the three has been computed
    use_regex,      \* checkbox "Use raw regex instead (advanced)"
    match_all,      \* checkbox "Match ALL"
    scope,          \* radio "Search in"
    sel_career,     \* multiselect Level
    sel_college,    \* multiselect College
    sel_subject,    \* multiselect Subject
    low_num,        \* the slider's lower end
    high_num,       \* the slider's upper end
    row,            \* one row of COURSES_V
    where_clauses,  \* the list the script builds
    selected,       \* whether the query returns the row
    qpc             \* how far the script has run

termVars == <<terms, err, last>>
normVars == <<text, phrase, rephrase, norm_col, npc>>
uiVars == <<use_regex, match_all, scope, sel_career, sel_college, sel_subject,
            low_num, high_num>>
queryVars == <<uiVars, row, where_clauses, selected, qpc>>
vars == <<termVars, normVars, queryVars>>

----------------------------------------------------------------------------
(* Bounds of the model *)

MaxRawLen == 3      \* longest text typed into the term input (besides the examples)
MaxTerms == 3       \* most chips held at once
MaxTextLen == 4     \* longest text normalized (besides the examples)
MaxTitleLen == 4    \* longest title searched for a phrase (besides the examples)
MaxTermLen == 3     \* longest term searched for (besides the examples)
MaxQueryTerms == 2  \* most terms combined in one query
MaxEscLen == 3      \* longest text with quotes and backslashes

----------------------------------------------------------------------------
(* Python str helpers *)

Strs(S, n) == UNION {[1..k -> S] : k \in 0..n}

Range(s) == {s[i] : i \in DOMAIN s}

\* characters str.strip() removes (the whitespace of the model's alphabets)
IsSpace(c) == c = " "

RECURSIVE lstrip(_)
lstrip(s) ==
    IF s # <<>> /\ IsSpace(Head(s)) THEN lstrip(Tail(s)) ELSE s

RECURSIVE rstrip(_)
rstrip(s) ==
    IF s # <<>> /\ IsSpace(s[Len(s)]) THEN rstrip(SubSeq(s, 1, Len(s) - 1)) ELSE s

\* str.strip()
strip(s) == rstrip(lstrip(s))

\* str.replace(old, new) for a one-character old and new
replace_char(s, old, new) == [i \in DOMAIN s |-> IF s[i] = old THEN new ELSE s[i]]

\* str.split(sep) for a one-character sep: always at least one piece
RECURSIVE split_from(_, _, _)
split_from(s, sep, cur) ==
    IF s = <<>> THEN <<cur>>
    ELSE IF Head(s) = sep THEN <<cur>> \o split_from(Tail(s), sep, <<>>)
    ELSE split_from(Tail(s), sep, Append(cur, Head(s)))

split(s, sep) == split_from(s, sep, <<>>)

\* the ASCII letters and digits the model's texts use
LowerLetters == <<"a", "c", "d", "e", "g", "h", "i", "l", "m", "n", "p", "r">>
UpperLetters == <<"A", "C", "D", "E", "G", "H", "I", "L", "M", "N", "P", "R">>
Digits == {"0", "1", "2", "3", "4", "5", "6", "7", "8", "9"}

\* str.lower() on one character
lower_char(c) ==
    IF \E k \in DOMAIN UpperLetters : UpperLetters[k] = c
    THEN LowerLetters[CHOOSE k \in DOMAIN UpperLetters : UpperLetters[k] = c]
    ELSE c

\* str.lower()
lower(s) == [i \in DOMAIN s |-> lower_char(s[i])]

\* the character class [A-Za-z0-9]
InAZaz09(c) == c \in Range(LowerLetters) \cup Range(UpperLetters) \cup Digits

\* the character class [a-z0-9]
Inaz09(c) == c \in Range(LowerLetters) \cup Digits

\* re.findall(r"[A-Za-z0-9]+", s): the maximal runs, left to right
RECURSIVE findall_from(_, _)
findall_from(s, cur) ==
    IF s = <<>> THEN (IF cur = <<>> THEN <<>> ELSE <<cur>>)
    ELSE IF InAZaz09(Head(s)) THEN findall_from(Tail(s), Append(cur, Head(s)))
    ELSE (IF cur = <<>> THEN <<>> ELSE <<cur>>) \o findall_from(Tail(s), <<>>)

findall(s) == findall_from(s, <<>>)

\* " ".join(tokens)
RECURSIVE join(_)
join(tokens) ==
    IF tokens = <<>> THEN <<>>
    ELSE IF Len(tokens) = 1 THEN Head(tokens)
    ELSE Head(tokens) \o <<" ">> \o join(Tail(tokens))

----------------------------------------------------------------------------
(* SQL scalar functions the generated query applies to a column *)

\* SQL NULL, kept apart from every str
NULL == <<"NULL">>

\* LOWER(x)
sql_lower(x) == IF x = NULL THEN NULL ELSE lower(x)

\* REGEXP_REPLACE(x, '[^a-z0-9]+', ' '): every maximal run of characters
\* outside the class becomes one blank
RECURSIVE replace_runs(_, _)
replace_runs(s, inrun) ==
    IF s = <<>> THEN <<>>
    ELSE IF Inaz09(Head(s)) THEN <<Head(s)>> \o replace_runs(Tail(s), FALSE)
    ELSE (IF inrun THEN <<>> ELSE <<" ">>) \o replace_runs(Tail(s), TRUE)

regexp_replace(x) == IF x = NULL THEN NULL ELSE replace_runs(x, FALSE)

\* CONCAT(' ', x, ' ')
concat_blanks(x) == IF x = NULL THEN NULL ELSE <<" ">> \o x \o <<" ">>

\* the three truth values of a SQL condition
TV == {"T", "F", "U"}

tv_and(a, b) ==
    IF a = "F" \/ b = "F" THEN "F" ELSE IF a = "T" /\ b = "T" THEN "T" ELSE "U"

tv_or(a, b) ==
    IF a = "T" \/ b = "T" THEN "T" ELSE IF a = "F" /\ b = "F" THEN "F" ELSE "U"

\* s LIKE p for texts: % is any run, _ any one character
RECURSIVE like_match(_, _)
like_match(s, p) ==
    IF p = <<>> THEN s = <<>>
    ELSE IF Head(p) = "%"
         THEN like_match(s, Tail(p)) \/ (s # <<>> /\ like_match(Tail(s), p))
    ELSE IF s = <<>> THEN FALSE
    ELSE (Head(p) = "_" \/ Head(p) = Head(s)) /\ like_match(Tail(s), Tail(p))

\* x LIKE p
sql_like(x, p) == IF x = NULL THEN "U" ELSE IF like_match(x, p) THEN "T" ELSE "F"

\* the characters that stand for themselves in a regular expression
RegexLiteral(c) == InAZaz09(c) \/ c \in {" ", "-", "'"}

\* REGEXP_LIKE(x, p, 'i') for a pattern of literal characters: the pattern is
\* anchored at both ends and letter case is ignored
sql_regexp_like(x, p) ==
    IF x = NULL THEN "U" ELSE IF lower(x) = lower(p) THEN "T" ELSE "F"

\* TRY_TO_NUMBER(x) IS NOT NULL, for texts of digits and letters
IsNumber(x) == x # NULL /\ x # <<>> /\ \A i \in DOMAIN x : x[i] \in Digits

DigitValue(c) ==
    CASE c = "0" -> 0 [] c = "1" -> 1 [] c = "2" -> 2 [] c = "3" -> 3 [] c = "4" -> 4
      [] c = "5" -> 5 [] c = "6" -> 6 [] c = "7" -> 7 [] c = "8" -> 8 [] c = "9" -> 9

\* TRY_TO_NUMBER(x) when it is not NULL
RECURSIVE NumberOf(_)
NumberOf(x) ==
    IF x = <<>> THEN 0
    ELSE 10 * NumberOf(SubSeq(x, 1, Len(x) - 1)) + DigitValue(x[Len(x)])

\* TRY_TO_NUMBER(x) BETWEEN lo AND hi
sql_between(x, lo, hi) ==
    IF ~IsNumber(x) THEN "U"
    ELSE IF lo <= NumberOf(x) /\ NumberOf(x) <= hi THEN "T" ELSE "F"

\* the value of a single-quoted string constant whose source text is body:
\* '' is a quote, and a backslash escapes the character after it
RECURSIVE sql_unquote(_)
sql_unquote(body) ==
    IF body = <<>> THEN <<>>
    ELSE IF Head(body) = "\\" /\ Len(body) >= 2
         THEN <<body[2]>> \o sql_unquote(Tail(Tail(body)))
    ELSE IF Head(body) = "'" /\ Len(body) >= 2 /\ body[2] = "'"
         THEN <<"'">> \o sql_unquote(Tail(Tail(body)))
    ELSE <<Head(body)>> \o sql_unquote(Tail(body))

\* how one character of a statement is read, given how the one before it was
\* read (prev), what it is (c) and what follows it (nxt): "open" and "close"
\* are the quotes that start and end a string constant and "sql" is outside
\* one; inside one, a backslash ("bs") takes the next character with it
\* ("esc") and a doubled quote ("q1", "q2") is a quote
ScanEvents == {"sql", "open", "lit", "bs", "esc", "q1", "q2", "close"}

CharClasses == {"quote", "backslash", "other", "end"}

char_class(c) == IF c = "'" THEN "quote" ELSE IF c = "\\" THEN "backslash" ELSE "other"

scan_step ==
    [prev \in ScanEvents, c \in CharClasses, nxt \in CharClasses |->
        IF prev \in {"sql", "close"} THEN (IF c = "quote" THEN "open" ELSE "sql")
        ELSE IF prev = "bs" THEN "esc"
        ELSE IF prev = "q1" THEN "q2"
        ELSE IF c = "backslash" THEN "bs"
        ELSE IF c = "quote" THEN (IF nxt = "quote" THEN "q1" ELSE "close")
        ELSE "lit"]

\* how the characters i..j of a statement are read, the one before them
\* having been read as before
RECURSIVE scan_span(_, _, _, _)
scan_span(chars, i, j, before) ==
    IF i > j THEN <<>>
    ELSE IF i = j
         THEN <<scan_step[before, char_class(chars[i]),
                          IF i < Len(chars) THEN char_class(chars[i + 1]) ELSE "end"]>>
    ELSE CHOOSE r \in {left \o scan_span(chars, ((i + j) \div 2) + 1, j, left[Len(left)]) :
                          left \in {scan_span(chars, i, (i + j) \div 2, before)}} : TRUE

\* the statement's characters as they are read, first to last
sql_scan(chars) == scan_span(chars, 1, Len(chars), "sql")

\* a plausible slip: LOWER left out of the column expression
norm_expr_nolower(col) == concat_blanks(regexp_replace(col))

\* NORM_TITLE / NORM_DESC on a column value
norm_expr(col) == concat_blanks(regexp_replace(sql_lower(col)))

----------------------------------------------------------------------------
(* utilities of streamlit_app.py *)

\* a plausible slip: .lower() left out
normalize_nolower(term) == join(findall(term))

normalize_term_to_phrase(term) == join(findall(lower(term)))

\* str.replace("'", "''")
RECURSIVE double_quotes(_)
double_quotes(s) ==
    IF s = <<>> THEN <<>>
    ELSE (IF Head(s) = "'" THEN <<"'", "'">> ELSE <<Head(s)>>) \o double_quotes(Tail(s))

esc_sql(s) == IF s = NULL THEN s ELSE double_quotes(s)

----------------------------------------------------------------------------
(* build WHERE conditions.  A condition the script writes as text is kept  *)
(* as a record of the text's parts: fn and col name the SQL around the     *)
(* single-quoted constant, lit is the text written between its quotes.     *)

Scopes == {"Title", "Description", "Both"}

\* a plausible slip: the blanks around the phrase left out of the pattern
preds_for_term_substring(term) ==
    IF ~use_regex
    THEN LET ph == normalize_term_to_phrase(term)
             pattern == <<"%">> \o esc_sql(ph) \o <<"%">>
         IN  IF ph = <<>> THEN <<>>
             ELSE (IF scope \in {"Title", "Both"}
                   THEN <<[fn |-> "LIKE", col |-> "title", lit |-> pattern]>> ELSE <<>>)
               \o (IF scope \in {"Description", "Both"}
                   THEN <<[fn |-> "LIKE", col |-> "description", lit |-> pattern]>>
                   ELSE <<>>)
    ELSE (IF scope \in {"Title", "Both"}
          THEN <<[fn |-> "REGEXP_LIKE", col |-> "title", lit |-> esc_sql(term)]>>
          ELSE <<>>)
      \o (IF scope \in {"Description", "Both"}
          THEN <<[fn |-> "REGEXP_LIKE", col |-> "description", lit |-> esc_sql(term)]>>
          ELSE <<>>)

\* preds_for_term: a LIKE condition is on NORM_TITLE / NORM_DESC, a
\* REGEXP_LIKE condition on the column itself
preds_for_term(term) ==
    IF ~use_regex
    THEN LET ph == normalize_term_to_phrase(term)
             pattern == <<"%", " ">> \o esc_sql(ph) \o <<" ", "%">>
         IN  IF ph = <<>> THEN <<>>
             ELSE (IF scope \in {"Title", "Both"}
                   THEN <<[fn |-> "LIKE", col |-> "title", lit |-> pattern]>> ELSE <<>>)
               \o (IF scope \in {"Description", "Both"}
                   THEN <<[fn |-> "LIKE", col |-> "description", lit |-> pattern]>>
                   ELSE <<>>)
    ELSE (IF scope \in {"Title", "Both"}
          THEN <<[fn |-> "REGEXP_LIKE", col |-> "title", lit |-> esc_sql(term)]>>
          ELSE <<>>)
      \o (IF scope \in {"Description", "Both"}
          THEN <<[fn |-> "REGEXP_LIKE", col |-> "description", lit |-> esc_sql(term)]>>
          ELSE <<>>)

\* per_term_groups: "(" + " OR ".join(p) + ")" for every term with a p
per_term_groups ==
    SelectSeq([i \in DOMAIN terms |-> preds_for_term(terms[i])], LAMBDA g : g # <<>>)

\* a plausible slip: the groups joined with OR whatever the checkbox says
joiner_always_or == " OR "

joiner == IF match_all THEN " AND " ELSE " OR "

\* col IN ('x', ...) over a multiselect's values
in_clause(col, sel) ==
    [kind |-> "in", col |-> col, lits |-> [i \in DOMAIN sel |-> esc_sql(sel[i])]]

\* where_clauses once the script has appended all of its conditions
where_list ==
       (IF terms # <<>> /\ per_term_groups # <<>>
        THEN <<[kind |-> "terms", joiner |-> joiner, groups |-> per_term_groups]>>
        ELSE <<>>)
    \o (IF sel_career # <<>> THEN <<in_clause("career_label", sel_career)>> ELSE <<>>)
    \o (IF sel_college # <<>> THEN <<in_clause("college", sel_college)>> ELSE <<>>)
    \o (IF sel_subject # <<>> THEN <<in_clause("subject_code", sel_subject)>> ELSE <<>>)
    \o <<[kind |-> "between", low |-> low_num, high |-> high_num]>>

(* the statement's text: each element is one character of it, or a stretch *)
(* of SQL that holds no quote, with the part the script means it to play   *)

sql(fragment) == <<[ch |-> fragment, role |-> "sql"]>>

\* '...' as the script writes it around body
quoted(body) ==
       <<[ch |-> "'", role |-> "open"]>>
    \o [i \in DOMAIN body |-> [ch |-> body[i], role |-> "lit"]]
    \o <<[ch |-> "'", role |-> "close"]>>

RECURSIVE joined_upto(_, _, _)
joined_upto(parts, sep, k) ==
    IF k = 0 THEN <<>>
    ELSE IF k = 1 THEN parts[1]
    ELSE joined_upto(parts, sep, k - 1) \o sql(sep) \o parts[k]

joined(parts, sep) == joined_upto(parts, sep, Len(parts))

\* NORM_TITLE / NORM_DESC
norm_text(col) ==
       sql("CONCAT(") \o quoted(<<" ">>) \o sql(", REGEXP_REPLACE(LOWER(")
    \o sql(col) \o sql("), ") \o quoted(<<"[^a-z0-9]+">>) \o sql(", ")
    \o quoted(<<" ">>) \o sql("), ") \o quoted(<<" ">>) \o sql(")")

pred_text(p) ==
    IF p.fn = "LIKE" THEN norm_text(p.col) \o sql(" LIKE ") \o quoted(p.lit)
    ELSE sql("REGEXP_LIKE(") \o sql(p.col) \o sql(", ") \o quoted(p.lit)
         \o sql(", ") \o quoted(<<"i">>) \o sql(")")

group_text(g) == sql("(") \o joined([i \in DOMAIN g |-> pred_text(g[i])], " OR ") \o sql(")")

clause_text(c) ==
    CASE c.kind = "terms" ->
             sql("(") \o joined([i \in DOMAIN c.groups |-> group_text(c.groups[i])], c.joiner)
             \o sql(")")
      [] c.kind = "in" ->
             sql(c.col) \o sql(" IN (")
             \o joined([i \in DOMAIN c.lits |-> quoted(c.lits[i])], ", ") \o sql(")")
      [] c.kind = "between" ->
             sql("(TRY_TO_NUMBER(course_number) BETWEEN ") \o sql("{low_num}")
             \o sql(" AND ") \o sql("{high_num}") \o sql(")")

\* where_sql
where_sql(clauses) ==
    IF clauses # <<>>
    THEN sql("WHERE ") \o joined([i \in DOMAIN clauses |-> clause_text(clauses[i])], " AND ")
    ELSE <<>>

\* the statement reads as the script wrote it: every string constant starts
\* and ends at the script's own quotes
ReadsAsWritten(clauses) ==
    \A stmt \in {where_sql(clauses)} :
        \A read \in {sql_scan([i \in DOMAIN stmt |-> stmt[i].ch])} :
            \A i \in DOMAIN stmt :
                stmt[i].role = (IF read[i] \in {"bs", "esc", "q1", "q2"} THEN "lit"
                                ELSE read[i])

(* the statement's conditions on one row *)

pred_value(p, r) ==
    IF p.fn = "LIKE" THEN sql_like(norm_expr(r[p.col]), sql_unquote(p.lit))
    ELSE sql_regexp_like(r[p.col], sql_unquote(p.lit))

RECURSIVE any_of(_)
any_of(values) ==
    IF values = <<>> THEN "F" ELSE tv_or(Head(values), any_of(Tail(values)))

RECURSIVE all_of(_)
all_of(values) ==
    IF values = <<>> THEN "T" ELSE tv_and(Head(values), all_of(Tail(values)))

group_value(g, r) == any_of([i \in DOMAIN g |-> pred_value(g[i], r)])

clause_value(c, r) ==
    CASE c.kind = "terms" ->
             LET values == [i \in DOMAIN c.groups |-> group_value(c.groups[i], r)]
             IN  IF c.joiner = " AND " THEN all_of(values) ELSE any_of(values)
      [] c.kind = "in" ->
             IF r[c.col] = NULL THEN "U"
             ELSE IF \E i \in DOMAIN c.lits : sql_unquote(c.lits[i]) = r[c.col] THEN "T"
             ELSE "F"
      [] c.kind = "between" -> sql_between(r.course_number, c.low, c.high)

\* WHERE keeps the rows on which the condition is true
where_value(clauses, r) ==
    all_of([i \in DOMAIN clauses |-> clause_value(clauses[i], r)]) = "T"

\* every REGEXP_LIKE pattern of the statement is made of literal characters
PatternsLiteral(clauses) ==
    \A i \in DOMAIN clauses :
        clauses[i].kind = "terms" =>
            \A j \in DOMAIN clauses[i].groups : \A k \in DOMAIN clauses[i].groups[j] :
                LET p == clauses[i].groups[j][k]
                IN  p.fn = "REGEXP_LIKE" =>
                        \A m \in DOMAIN sql_unquote(p.lit) : RegexLiteral(sql_unquote(p.lit)[m])

split_terms(s) ==
    IF s = <<>> THEN <<>>
    ELSE LET parts == [i \in DOMAIN split(replace_char(s, "|", ","), ",") |->
                          strip(split(replace_char(s, "|", ","), ",")[i])]
         IN  SelectSeq(parts, LAMBDA p : p # <<>>)

\* a plausible slip: the membership test dropped
RECURSIVE add_terms_nodedupe(_, _)
add_terms_nodedupe(ts, items) ==
    IF items = <<>> THEN ts
    ELSE LET t == strip(Head(items))
         IN  add_terms_nodedupe(IF t # <<>> THEN Append(ts, t) ELSE ts, Tail(items))

\* a plausible slip: the membership test made case-insensitive
RECURSIVE add_terms_nocase(_, _)
add_terms_nocase(ts, items) ==
    IF items = <<>> THEN ts
    ELSE LET t == strip(Head(items))
         IN  add_terms_nocase(
                 IF t # <<>> /\ lower(t) \notin {lower(x) : x \in Range(ts)}
                 THEN Append(ts, t) ELSE ts,
                 Tail(items))

\* a plausible slip: new terms put in front of the list
RECURSIVE add_terms_prepend(_, _)
add_terms_prepend(ts, items) ==
    IF items = <<>> THEN ts
    ELSE LET t == strip(Head(items))
         IN  add_terms_prepend(
                 IF t # <<>> /\ t \notin Range(ts) THEN <<t>> \o ts ELSE ts,
                 Tail(items))

\* add_terms_to_state: the list after the loop over items
RECURSIVE add_terms_to_state(_, _)
add_terms_to_state(ts, items) ==
    IF items = <<>> THEN ts
    ELSE LET t == strip(Head(items))
         IN  add_terms_to_state(
                 IF t # <<>> /\ t \notin Range(ts) THEN Append(ts, t) ELSE ts,
                 Tail(items))

\* list.remove(x): drops the first element equal to x, raises ValueError when
\* there is none
list_remove(l, x) ==
    IF x \notin Range(l) THEN [list |-> l, raised |-> TRUE]
    ELSE LET i == CHOOSE j \in DOMAIN l : l[j] = x /\ \A k \in 1..(j - 1) : l[k] # x
         IN  [list |-> SubSeq(l, 1, i - 1) \o SubSeq(l, i + 1, Len(l)),
              raised |-> FALSE]

\* a plausible slip: the chip's index used to truncate the list
chip_loop_truncate(ts, k) ==
    IF k < Len(ts) THEN [list |-> SubSeq(ts, 1, k), raised |-> FALSE]
    ELSE [list |-> ts, raised |-> FALSE]

\* the chip loop with the button keyed chip_k pressed: only the chips of the
\* current list are rendered, so a key past the end belongs to no button
chip_loop(ts, k) ==
    IF k < Len(ts) THEN list_remove(ts, ts[k + 1])
    ELSE [list |-> ts, raised |-> FALSE]

----------------------------------------------------------------------------
(* The term chips: what the user can type and press *)

TermAlphabet == {"a", ",", "|", " "}

ai == <<"a", "i">>
ml == <<"m", "l">>
AI == <<"A", "I">>

\* "ai, ml | AI"
RawAiMlAI == <<"a", "i", ",", " ", "m", "l", " ", "|", " ", "A", "I">>
\* "ai, ai"
RawAiAi == <<"a", "i", ",", " ", "a", "i">>

\* "aa, a |aaa", "a|aa" and "aa,a": several distinct pieces in one text
RawSeveral ==
    {<<"a", "a", ",", " ", "a", " ", "|", "a", "a", "a">>,
     <<"a", "|", "a", "a">>,
     <<"a", "a", ",", "a">>}

\* every text of at most MaxRawLen characters over the alphabet, and the
\* longer ones above
RawInputs == Strs(TermAlphabet, MaxRawLen) \cup RawSeveral

\* the texts of the documented examples, and some one-character ones
ExampleInputs == {RawAiMlAI, RawAiAi, <<"a">>, <<"A">>, <<",">>, <<>>}

\* split_terms of every text the user can type, computed once
SplitOf == [raw \in RawInputs \cup ExampleInputs |-> split_terms(raw)]

\* no widget event is being handled: the page is rendered and waits
Waiting == [kind |-> "idle", raw |-> <<>>, idx |-> 0, before |-> <<>>]

\* the term chips as the script first sets them up
FreshTerms ==
    /\ terms = <<>>
    /\ err = FALSE
    /\ last = Waiting

\* the normalizer not in use
NormIdle ==
    /\ text = <<>>
    /\ phrase = <<>>
    /\ rephrase = <<>>
    /\ norm_col = <<>>
    /\ npc = "idle"

\* a row of the view
Row(title, description, career_label, college, subject_code, course_number) ==
    [title |-> title, description |-> description, career_label |-> career_label,
     college |-> college, subject_code |-> subject_code, course_number |-> course_number]

UG == <<"U", "G">>
GR == <<"G", "R">>
ENG == <<"E", "N", "G">>
LAW == <<"L", "A", "W">>
CS == <<"C", "S">>
MA == <<"M", "A">>

\* the script has not been run on a row
QueryIdle ==
    /\ use_regex = FALSE
    /\ match_all = FALSE
    /\ scope = "Title"
    /\ sel_career = <<>>
    /\ sel_college = <<>>
    /\ sel_subject = <<>>
    /\ low_num = 0
    /\ high_num = 9999
    /\ row = Row(NULL, NULL, NULL, NULL, NULL, NULL)
    /\ where_clauses = <<>>
    /\ selected = FALSE
    /\ qpc = "idle"

InitTerms == FreshTerms /\ NormIdle /\ QueryIdle

\* _submit_terms: the text input's on_change, or the Add button
SubmitTerms(raw) ==
    /\ last = Waiting
    /\ LET after == add_terms_to_state(terms, SplitOf[raw])
       IN  /\ Len(after) <= MaxTerms
           /\ terms' = after
    /\ last' = [kind |-> "add", raw |-> raw, idx |-> 0, before |-> terms]
    /\ UNCHANGED <<err, normVars, queryVars>>

\* the Clear button
Clear ==
    /\ last = Waiting
    /\ terms' = <<>>
    /\ last' = [kind |-> "clear", raw |-> <<>>, idx |-> 0, before |-> terms]
    /\ UNCHANGED <<err, normVars, queryVars>>

\* a press of the chip button keyed chip_k
ChipRemove(k) ==
    /\ last = Waiting
    /\ LET done == chip_loop(terms, k)
       IN  /\ terms' = done.list
           /\ err' = (err \/ done.raised)
    /\ last' = [kind |-> "remove", raw |-> <<>>, idx |-> k, before |-> terms]
    /\ UNCHANGED <<normVars, queryVars>>

\* the rerun the event started has rendered the page
RerunDone ==
    /\ last # Waiting
    /\ last' = Waiting
    /\ UNCHANGED <<terms, err, normVars, queryVars>>

TermsStep(Inputs) ==
    \/ \E raw \in Inputs : SubmitTerms(raw)
    \/ Clear
    \/ \E k \in 0..MaxTerms : ChipRemove(k)
    \/ RerunDone

NextTerms == TermsStep(RawInputs)

NextExamples == TermsStep(ExampleInputs)

\* the chips under every short text over the alphabet
SpecTerms == InitTerms /\ [][NextTerms]_vars

\* the chips under the texts of the documented examples
SpecExamples == InitTerms /\ [][NextExamples]_vars

----------------------------------------------------------------------------
(* The normalizer on a search term and on a stored text *)

NormAlphabet == {"a", "A", "1", "-", " "}

\* "Machine-Learning, AI!"
TextMachine ==
    <<"M", "a", "c", "h", "i", "n", "e", "-", "L", "e", "a", "r", "n", "i", "n", "g",
      ",", " ", "A", "I", "!">>
\* "machine learning ai"
PhraseMachine ==
    <<"m", "a", "c", "h", "i", "n", "e", " ", "l", "e", "a", "r", "n", "i", "n", "g",
      " ", "a", "i">>

Texts == Strs(NormAlphabet, MaxTextLen) \cup {TextMachine}

InitNorm ==
    /\ FreshTerms
    /\ QueryIdle
    /\ text \in Texts
    /\ phrase = <<>>
    /\ rephrase = <<>>
    /\ norm_col = <<>>
    /\ npc = "input"

\* phrase = normalize_term_to_phrase(term), as preds_for_term calls it
NormalizeTerm ==
    /\ npc = "input"
    /\ phrase' = normalize_term_to_phrase(text)
    /\ npc' = "phrase"
    /\ UNCHANGED <<text, rephrase, norm_col, termVars, queryVars>>

\* the phrase typed back in as a term
NormalizeAgain ==
    /\ npc = "phrase"
    /\ rephrase' = normalize_term_to_phrase(phrase)
    /\ npc' = "again"
    /\ UNCHANGED <<text, phrase, norm_col, termVars, queryVars>>

\* the same text as the title of a row, under NORM_TITLE
NormalizeColumn ==
    /\ npc = "again"
    /\ norm_col' = norm_expr(text)
    /\ npc' = "done"
    /\ UNCHANGED <<text, phrase, rephrase, termVars, queryVars>>

NextNorm == NormalizeTerm \/ NormalizeAgain \/ NormalizeColumn

\* the normalizer on every short text
SpecNorm == InitNorm /\ [][NextNorm]_vars

----------------------------------------------------------------------------
(* One rerun of the script below the sidebar: build WHERE, run the query *)

\* lines 172-215
BuildWhere ==
    /\ qpc = "ui"
    /\ where_clauses' = where_list
    /\ qpc' = "built"
    /\ UNCHANGED <<termVars, normVars, uiVars, row, selected>>

\* session.sql(sql) on the row, for a statement that reads as the script wrote
\* it and whose patterns are literal text
RunQuery ==
    /\ qpc = "built"
    /\ ReadsAsWritten(where_clauses)
    /\ PatternsLiteral(where_clauses)
    /\ selected' = where_value(where_clauses, row)
    /\ qpc' = "done"
    /\ UNCHANGED <<termVars, normVars, uiVars, row, where_clauses>>

NextQuery == BuildWhere \/ RunQuery

\* the lists of distinct terms the chips can hold
TermLists(S, n) == {l \in Strs(S, n) : \A i, j \in DOMAIN l : l[i] = l[j] => i = j}

(* one term against every short title *)

PhraseAlphabet == {"d", "l", "-"}

\* "deep learning"
DeepLearning == <<"d", "e", "e", "p", " ", "l", "e", "a", "r", "n", "i", "n", "g">>
\* "Deep-Learning"
TitleDeepLearning == <<"D", "e", "e", "p", "-", "L", "e", "a", "r", "n", "i", "n", "g">>
\* "learning deep"
TitleLearningDeep == <<"l", "e", "a", "r", "n", "i", "n", "g", " ", "d", "e", "e", "p">>
\* "deeplearning"
TitleDeeplearning == <<"d", "e", "e", "p", "l", "e", "a", "r", "n", "i", "n", "g">>

PhraseTerms == (Strs(PhraseAlphabet, MaxTermLen) \ {<<>>}) \cup {DeepLearning, <<"D">>}

PhraseTitles ==
    Strs(PhraseAlphabet, MaxTitleLen)
        \cup {NULL, TitleDeepLearning, TitleLearningDeep, TitleDeeplearning, <<"D", "-", "l">>}

PhraseDescriptions == {NULL, <<"d", "-", "l">>}

InitPhrase ==
    /\ terms \in {<<t>> : t \in PhraseTerms}
    /\ err = FALSE
    /\ last = Waiting
    /\ NormIdle
    /\ use_regex = FALSE
    /\ match_all = FALSE
    /\ scope \in Scopes
    /\ sel_career = <<>>
    /\ sel_college = <<>>
    /\ sel_subject = <<>>
    /\ low_num = 0
    /\ high_num = 9999
    /\ row \in {Row(t, d, UG, ENG, CS, <<"3", "0", "0", "0">>) :
                    t \in PhraseTitles, d \in PhraseDescriptions}
    /\ where_clauses = <<>>
    /\ selected = FALSE
    /\ qpc = "ui"

SpecPhrase == InitPhrase /\ [][NextQuery]_vars

(* several terms, the filters and the range against a few rows *)

QueryTerms == {<<"d">>, <<"l">>, <<"-">>}

QueryRows ==
    {Row(t, d, c[1], c[2], c[3], n) :
        t \in {NULL, <<"d">>, <<"D", "-", "l">>},
        d \in {NULL, <<"l">>},
        c \in {<<UG, ENG, CS>>, <<NULL, LAW, MA>>},
        n \in {<<"2", "9", "9", "9">>, <<"3", "0", "0", "0">>, <<"5", "9", "9", "9">>,
               <<"6", "0", "0", "0">>, <<"3", "0", "0", "A">>}}

InitQuery ==
    /\ terms \in TermLists(QueryTerms, MaxQueryTerms)
    /\ err = FALSE
    /\ last = Waiting
    /\ NormIdle
    /\ use_regex \in BOOLEAN
    /\ match_all \in BOOLEAN
    /\ scope \in Scopes
    /\ sel_career \in {<<>>, <<UG, GR>>}
    /\ sel_college \in {<<>>, <<ENG>>}
    /\ sel_subject \in {<<>>, <<CS>>}
    /\ \E range \in {<<0, 9999>>, <<3000, 5999>>} :
           low_num = range[1] /\ high_num = range[2]
    /\ row \in QueryRows
    /\ where_clauses = <<>>
    /\ selected = FALSE
    /\ qpc = "ui"

SpecQuery == InitQuery /\ [][NextQuery]_vars

(* terms and filter values with quotes and backslashes *)

EscAlphabet == {"a", "'", "\\"}

EscTexts == Strs(EscAlphabet, MaxEscLen) \ {<<>>}

InitEscape ==
    /\ terms \in {<<t>> : t \in EscTexts}
    /\ err = FALSE
    /\ last = Waiting
    /\ NormIdle
    /\ use_regex \in BOOLEAN
    /\ match_all = FALSE
    /\ scope \in Scopes
    /\ sel_career = <<>>
    /\ sel_college \in {<<>>} \cup {<<v>> : v \in EscTexts}
    /\ sel_subject = <<>>
    /\ low_num = 0
    /\ high_num = 9999
    /\ row \in {Row(<<"a">>, <<"a", "'">>, UG, c, CS, <<"3", "0", "0", "0">>) :
                    c \in {<<"a", "'">>, <<"\\", "\\">>}}
    /\ where_clauses = <<>>
    /\ selected = FALSE
    /\ qpc = "ui"

SpecEscape == InitEscape /\ [][NextQuery]_vars

----------------------------------------------------------------------------
(* Properties of the term chips *)

NoDuplicates(l) == \A i, j \in DOMAIN l : l[i] = l[j] => i = j

IsSeparator(c) == c \in {",", "|"}

\* <<i, j>>: raw[i..j] is a maximal run of characters that are no separator
PieceSpans(raw) ==
    {sp \in (DOMAIN raw) \X (DOMAIN raw) :
        /\ sp[1] <= sp[2]
        /\ \A k \in sp[1]..sp[2] : ~IsSeparator(raw[k])
        /\ sp[1] = 1 \/ IsSeparator(raw[sp[1] - 1])
        /\ sp[2] = Len(raw) \/ IsSeparator(raw[sp[2] + 1])}

\* raw[i..j] without its leading and trailing blanks
TrimmedPiece(raw, sp) ==
    LET inked == {k \in sp[1]..sp[2] : ~IsSpace(raw[k])}
    IN  IF inked = {} THEN <<>>
        ELSE SubSeq(raw, CHOOSE k \in inked : \A m \in inked : k <= m,
                         CHOOSE k \in inked : \A m \in inked : k >= m)

\* the pieces of raw that survive trimming
Survivors(raw) == {TrimmedPiece(raw, sp) : sp \in PieceSpans(raw)} \ {<<>>}

\* where the piece t first starts in raw
FirstStart(raw, t) ==
    LET starts == {sp[1] : sp \in {q \in PieceSpans(raw) : TrimmedPiece(raw, q) = t}}
    IN  CHOOSE k \in starts : \A m \in starts : k <= m

\* C1: after any sequence of addTerms, removeTerm and clear from the empty
\* TermSet, the TermSet holds no duplicate and no empty or blank-only string.
C1_NoDupNoEmpty ==
    /\ NoDuplicates(terms)
    /\ \A i \in DOMAIN terms : \E k \in DOMAIN terms[i] : ~IsSpace(terms[i][k])

\* an addTerms whose input repeats a term the set already held
C1_Witness ==
    /\ last.kind = "add"
    /\ Len(last.before) >= 2
    /\ Survivors(last.raw) \cap Range(last.before) # {}
    /\ terms = last.before

\* C3: addTerms splits on comma or pipe, trims, discards empty pieces and
\* appends each surviving piece not yet present: the old entries keep their
\* places, the new ones come in input order, first occurrence wins, and an
\* input with no surviving piece changes nothing.
C3_AddTerms ==
    last.kind = "add" =>
        LET old == last.before
            new == SubSeq(terms, Len(old) + 1, Len(terms))
        IN  /\ Len(terms) >= Len(old)
            /\ SubSeq(terms, 1, Len(old)) = old
            /\ Range(new) = Survivors(last.raw) \ Range(old)
            /\ NoDuplicates(new)
            /\ \A i, j \in DOMAIN new :
                   i < j => FirstStart(last.raw, new[i]) < FirstStart(last.raw, new[j])
            /\ Survivors(last.raw) = {} => terms = old

\* an addTerms of several pieces onto a non-empty set, two pieces being new
\* and one a repeat
C3_Witness ==
    /\ last.kind = "add"
    /\ last.before # <<>>
    /\ Cardinality(PieceSpans(last.raw)) >= 3
    /\ Len(terms) = Len(last.before) + 2
    /\ Survivors(last.raw) \cap Range(last.before) # {}

\* C4 as stated: addTerms("ai, ml | AI") on the empty TermSet yields
\* ["ai", "ml"].
C4_Original ==
    (last.kind = "add" /\ last.before = <<>> /\ last.raw = RawAiMlAI)
        => terms = <<ai, ml>>

\* C4 as amended: addTerms("ai, ml | AI") on the empty TermSet yields
\* ["ai", "ml", "AI"]: "AI" is not the string "ai" and is kept.
C4_AiMlAI ==
    (last.kind = "add" /\ last.before = <<>> /\ last.raw = RawAiMlAI)
        => terms = <<ai, ml, AI>>

\* addTerms("ai, ml | AI") has run on the empty TermSet
C4_Witness ==
    last.kind = "add" /\ last.before = <<>> /\ last.raw = RawAiMlAI

\* C8: removing a term that has no chip changes nothing, removing a present
\* term drops exactly that entry and keeps the order of the rest, clear
\* empties the set, and no operation raises.
C8_RemoveClear ==
    /\ ~err
    /\ (last.kind = "remove" /\ last.idx >= Len(last.before)) => terms = last.before
    /\ (last.kind = "remove" /\ last.idx < Len(last.before)) =>
           /\ Len(terms) = Len(last.before) - 1
           /\ \A i \in DOMAIN terms :
                  terms[i] = last.before[IF i <= last.idx THEN i ELSE i + 1]
    /\ last.kind = "clear" => terms = <<>>

\* the middle one of three chips has been removed
C8_Witness ==
    /\ last.kind = "remove"
    /\ Len(last.before) = 3
    /\ last.idx = 1
    /\ terms = <<last.before[1], last.before[3]>>

----------------------------------------------------------------------------
(* Properties of the normalizer *)

\* <<i, j>>: s[i..j] is a maximal run of ASCII letters and digits
TokenSpans(s) ==
    {sp \in (DOMAIN s) \X (DOMAIN s) :
        /\ sp[1] <= sp[2]
        /\ \A k \in sp[1]..sp[2] : InAZaz09(s[k])
        /\ sp[1] = 1 \/ ~InAZaz09(s[sp[1] - 1])
        /\ sp[2] = Len(s) \/ ~InAZaz09(s[sp[2] + 1])}

\* the tokens of s: its maximal runs of letters and digits, lower-cased, in order
Tokens(s) ==
    LET spans == TokenSpans(s)
        nth(k) == CHOOSE sp \in spans :
                      Cardinality({q \in spans : q[1] < sp[1]}) = k - 1
    IN  [k \in 1..Cardinality(spans) |->
            [i \in 1..(nth(k)[2] - nth(k)[1] + 1) |-> lower_char(s[nth(k)[1] + i - 1])]]

\* the blank-separated words of a normalized text
Words(x) == SelectSeq(split(x, " "), LAMBDA w : w # <<>>)

\* C7: the normalization of a stored text and that of a search term yield the
\* same sequence of tokens: the lower-cased maximal runs of ASCII letters and
\* digits, every other character being a separator.
C7_SameTokens ==
    npc = "done" =>
        /\ Words(norm_col) = Words(phrase)
        /\ Words(phrase) = Tokens(text)

\* a text with an upper-case letter, a leading separator and two tokens has
\* gone through both normalizations
C7_Witness ==
    /\ npc = "done"
    /\ Len(text) = 4
    /\ text[1] = "-"
    /\ "A" \in Range(text)
    /\ Len(Words(norm_col)) = 2

\* C10: the normalizer is idempotent; its output holds only lower-case letters,
\* digits and single interior blanks; it is empty exactly when the input has no
\* letter or digit; normalize("   ") = "" and
\* normalize("Machine-Learning, AI!") = "machine learning ai".
C10_Normalizer ==
    /\ npc \in {"again", "done"} => rephrase = phrase
    /\ npc \in {"phrase", "again", "done"} =>
           /\ \A i \in DOMAIN phrase : Inaz09(phrase[i]) \/ phrase[i] = " "
           /\ phrase # <<>> => phrase[1] # " " /\ phrase[Len(phrase)] # " "
           /\ \A i \in 1..(Len(phrase) - 1) : ~(phrase[i] = " " /\ phrase[i + 1] = " ")
           /\ phrase = <<>> <=> \A i \in DOMAIN text : ~InAZaz09(text[i])
           /\ text = <<" ", " ", " ">> => phrase = <<>>
           /\ text = TextMachine => phrase = PhraseMachine

\* "Machine-Learning, AI!" has been normalized, and its phrase normalized again
C10_Witness ==
    /\ npc = "again"
    /\ text = TextMachine
    /\ rephrase = PhraseMachine

----------------------------------------------------------------------------
(* Properties of the compiled condition *)

\* needle occurs in hay as a run of consecutive elements
ContainsRun(needle, hay) ==
    \E k \in 0..(Len(hay) - Len(needle)) :
        \A i \in 1..Len(needle) : hay[k + i] = needle[i]

\* the term's tokens occur, in order and side by side, among the field's
TermOccurs(term, field) ==
    field # NULL /\ ContainsRun(Tokens(term), Tokens(field))

\* the field as a whole is the term, letter case aside: what a pattern of
\* literal characters matches
TermIsField(term, field) ==
    field # NULL /\ [i \in DOMAIN field |-> lower_char(field[i])]
                        = [i \in DOMAIN term |-> lower_char(term[i])]

\* the per-term predicate of the configuration on the row
TermHolds(term) ==
    \E field \in (IF scope \in {"Title", "Both"} THEN {row.title} ELSE {})
                    \cup (IF scope \in {"Description", "Both"} THEN {row.description}
                          ELSE {}) :
        IF use_regex THEN TermIsField(term, field) ELSE TermOccurs(term, field)

\* the terms that contribute a predicate
Kept == SelectSeq(terms, LAMBDA t : use_regex \/ Tokens(t) # <<>>)

\* the value on the row of the conditions the script writes for one term
TermPredicate(term) == group_value(preds_for_term(term), row) = "T"

GroupHolds ==
    \/ Kept = <<>>
    \/ match_all /\ \A i \in DOMAIN Kept : TermHolds(Kept[i])
    \/ ~match_all /\ \E i \in DOMAIN Kept : TermHolds(Kept[i])

FilterHolds(sel, value) == sel = <<>> \/ value \in Range(sel)

RangeHolds ==
    /\ row.course_number # NULL
    /\ row.course_number # <<>>
    /\ \A i \in DOMAIN row.course_number : row.course_number[i] \in Digits
    /\ low_num <= NumberOf(row.course_number)
    /\ NumberOf(row.course_number) <= high_num

FiltersAndRangeHold ==
    /\ FilterHolds(sel_career, row.career_label)
    /\ FilterHolds(sel_college, row.college)
    /\ FilterHolds(sel_subject, row.subject_code)
    /\ RangeHolds

\* C2: in smart mode a term with a non-empty normal form matches a scoped field
\* exactly when its tokens occur there as a run of whole tokens ("deep
\* learning" matches "Deep-Learning", neither "learning deep" nor
\* "deeplearning"); Title checks the title, Description the description, Both
\* either.
C2_PhraseMatch ==
    (qpc = "done" /\ ~use_regex /\ Len(terms) = 1 /\ Tokens(terms[1]) # <<>>) =>
        /\ where_clauses[1].kind = "terms"
        /\ (clause_value(where_clauses[1], row) = "T") <=>
               \/ scope \in {"Title", "Both"} /\ TermOccurs(terms[1], row.title)
               \/ scope \in {"Description", "Both"}
                      /\ TermOccurs(terms[1], row.description)
        /\ (terms[1] = DeepLearning /\ scope = "Title" /\ FiltersAndRangeHold) =>
               /\ row.title = TitleDeepLearning => selected
               /\ row.title \in {TitleLearningDeep, TitleDeeplearning} => ~selected

\* "deep learning" has been searched in the title "Deep-Learning" of a row with
\* no description, and found
C2_Witness ==
    /\ qpc = "done"
    /\ terms = <<DeepLearning>>
    /\ scope = "Both"
    /\ row.title = TitleDeepLearning
    /\ row.description = NULL
    /\ selected

\* C5: the per-term predicates are joined with AND under Match ALL and with OR
\* otherwise; a term that normalizes to nothing in smart mode is left out; when
\* no term is left there is no term group and the condition is that of an
\* empty TermSet.
C5_TermGroup ==
    qpc = "done" =>
        /\ (\E i \in DOMAIN where_clauses : where_clauses[i].kind = "terms")
               <=> Kept # <<>>
        /\ Kept # <<>> =>
               /\ where_clauses[1].kind = "terms"
               /\ Len(where_clauses[1].groups) = Len(Kept)
               /\ (clause_value(where_clauses[1], row) = "T")
                      <=> IF match_all THEN \A i \in DOMAIN Kept : TermPredicate(Kept[i])
                          ELSE \E i \in DOMAIN Kept : TermPredicate(Kept[i])
        /\ Kept = <<>> =>
               /\ Len(where_clauses)
                      = 1 + Cardinality({sel \in {<<1, sel_career>>, <<2, sel_college>>,
                                                  <<3, sel_subject>>} : sel[2] # <<>>})
               /\ (sel_career = <<>> /\ sel_college = <<>> /\ sel_subject = <<>>)
                      => (selected <=> RangeHolds)

\* under Match ALL a term that normalizes to nothing stands beside one that
\* matches, and the row is returned
C5_Witness ==
    /\ qpc = "done"
    /\ match_all
    /\ ~use_regex
    /\ Len(terms) = 2
    /\ Len(Kept) = 1
    /\ selected

\* C6: the compiled condition accepts a row exactly when the term group (if
\* any) holds, each non-empty selection holds the row's value, and the course
\* number parses to a number within the inclusive range; the range condition
\* is always there, alone when there are no terms and no selections.
C6_Composition ==
    /\ qpc \in {"built", "done"} =>
           /\ where_clauses # <<>>
           /\ where_clauses[Len(where_clauses)]
                  = [kind |-> "between", low |-> low_num, high |-> high_num]
           /\ (terms = <<>> /\ sel_career = <<>> /\ sel_college = <<>>
                   /\ sel_subject = <<>>) => Len(where_clauses) = 1
    /\ qpc = "done" => (selected <=> (GroupHolds /\ FiltersAndRangeHold))

\* C9: every single-quoted constant of the WHERE text is closed by the quote
\* the builder appends, whatever the term or the selected value holds.
C9_SafelyEscaped ==
    qpc \in {"built", "done"} => ReadsAsWritten(where_clauses)

====
